---- MODULE Spec2Model ----
(***************************************************************************)
(* Model of proton::initializer::TaskRunner                                *)
(* (searchcore/proton/initializer/task_runner.cpp).                        *)
(*                                                                         *)
(* A run walks a dependency graph of initializer tasks.  Control units     *)
(* (the polls and the setTaskDone units) are executed one at a time by the *)
(* context executor; task bodies are executed by the worker executor       *)
(* (_executor) and may overlap.                                            *)
(***************************************************************************)
EXTENDS Integers, Sequences, FiniteSets, TLC

\* Number of tasks in the modelled graphs.
NumTasks == 4

\* Number of tasks whose initial state is arbitrary in SpecAny.
NumAnyTasks == 3

Tasks == 1..NumTasks

States == {"BLOCKED", "RUNNING", "DONE"}

VARIABLES
    deps,          \* deps[t]: InitializerTask::getDependencies(), a sequence
    root,          \* Context::_rootTask
    state,         \* state[t]: InitializerTask::getState()
    runningTasks,  \* TaskRunner::_runningTasks: the bits of the unsigned counter
                   \* read as a signed number, so that 0u - 1 is -1
    done,          \* Context::_done
    ctxQueue,      \* units submitted to the context executor, not yet executed
                   \* (it runs one unit at a time, in no promised order)
    workerQueue,   \* body lambdas submitted to _executor, not yet started
    bodyRunning,   \* tasks whose run() is in progress on a worker
    caller,        \* position of the thread that called runTask
    promise,       \* std::promise of the synchronous runTask has a value
    assertFailed,  \* an assert() of task_runner.cpp failed (process aborted)
    polls,         \* history: number of pollTask invocations
    completions,   \* history: number of setTaskDone invocations
    callbacks,     \* history: number of invocations of the done task
    submitted,     \* history: submitted[t] = times run() of t was given to _executor
    setRunningCalls, \* history: setRunningCalls[t] = times t was set Running
    lastReady,     \* history: ready list computed by the most recent poll
    hung,          \* tasks whose run() never returns
    destroyed      \* ~TaskRunner: "no", or "ok" / "assert" as its assertion went

vars == <<deps, root, state, runningTasks, done, ctxQueue, workerQueue,
          bodyRunning, caller, promise, assertFailed, polls, completions,
          callbacks, submitted, setRunningCalls, lastReady, hung, destroyed>>

-----------------------------------------------------------------------------
(* Graphs *)

RECURSIVE SetToSeq(_)
\* The elements of a set of tasks in ascending order.
SetToSeq(S) ==
    IF S = {} THEN <<>>
    ELSE LET m == CHOOSE x \in S : \A y \in S : x <= y
         IN <<m>> \o SetToSeq(S \ {m})

Range(s) == {s[i] : i \in 1..Len(s)}

Reverse(s) == [i \in 1..Len(s) |-> s[Len(s) + 1 - i]]

\* The dependency lists of graph g, each in ascending or in descending order.
DepLists(g, descending) ==
    [t \in Tasks |-> IF descending THEN Reverse(SetToSeq(g[t]))
                                   ELSE SetToSeq(g[t])]

RECURSIVE GraphsUpTo(_)
\* The dependency sets of the first n tasks: a task depends only on tasks
\* constructed before it (a dependency is an existing task object).
GraphsUpTo(n) ==
    IF n = 0 THEN {<<>>}
    ELSE {Append(g, S) : g \in GraphsUpTo(n - 1), S \in SUBSET (1..(n - 1))}

AcyclicGraphs == GraphsUpTo(NumTasks)

RECURSIVE ReachFrom(_, _, _)
\* Tasks reachable from the tasks of frontier along dependency edges.
ReachFrom(dp, frontier, seen) ==
    IF frontier = {} THEN seen
    ELSE LET next == UNION {Range(dp[t]) : t \in frontier} \ (seen \cup frontier)
         IN ReachFrom(dp, next, seen \cup frontier)

Reachable == ReachFrom(deps, {root}, {})

Deps(t) == Range(deps[t])

-----------------------------------------------------------------------------
(* The part of the program state that the control units read and write. *)

Ctl == [state |-> state, runningTasks |-> runningTasks, done |-> done,
        workerQueue |-> workerQueue, promise |-> promise,
        assertFailed |-> assertFailed, polls |-> polls,
        completions |-> completions, callbacks |-> callbacks,
        submitted |-> submitted, setRunningCalls |-> setRunningCalls,
        lastReady |-> lastReady]

\* The control unit that ran left the program state c.
Install(c) ==
    /\ state' = c.state
    /\ runningTasks' = c.runningTasks
    /\ done' = c.done
    /\ workerQueue' = c.workerQueue
    /\ promise' = c.promise
    /\ assertFailed' = c.assertFailed
    /\ polls' = c.polls
    /\ completions' = c.completions
    /\ callbacks' = c.callbacks
    /\ submitted' = c.submitted
    /\ setRunningCalls' = c.setRunningCalls
    /\ lastReady' = c.lastReady

-----------------------------------------------------------------------------
(* TaskRunner::getReadyTasks *)

\* The element of a singleton set.  Only({F(r) : r \in {e}}) is F(e) with e
\* evaluated once, as a call evaluates its result once.
Only(S) == CHOOSE x \in S : TRUE

RECURSIVE getReadyTasks(_, _, _, _), getReadyDeps(_, _, _, _, _, _)

\* Mutant: a task reached again in the same poll is examined again.
getReadyTasks_NoChecked(st, task, readyTasks, checked) ==
    IF st[task] # "BLOCKED"
    THEN [readyTasks |-> readyTasks, checked |-> checked]
    ELSE Only({[readyTasks |-> IF r.ready THEN Append(r.readyTasks, task)
                               ELSE r.readyTasks,
                checked |-> r.checked] :
               r \in {getReadyDeps(st, deps[task], 1, TRUE, readyTasks,
                                   checked \cup {task})}})

\* Mutant: a task is put on the ready list whatever its dependencies.
getReadyTasks_AlwaysReady(st, task, readyTasks, checked) ==
    IF st[task] # "BLOCKED"
    THEN [readyTasks |-> readyTasks, checked |-> checked]
    ELSE IF task \in checked
    THEN [readyTasks |-> readyTasks, checked |-> checked]
    ELSE Only({[readyTasks |-> Append(r.readyTasks, task),
                checked |-> r.checked] :
               r \in {getReadyDeps(st, deps[task], 1, TRUE, readyTasks,
                                   checked \cup {task})}})

\* getReadyTasks(task, readyTasks, checked) on task states st; the result
\* holds the two reference parameters as the call leaves them.
getReadyTasks(st, task, readyTasks, checked) ==
    IF st[task] # "BLOCKED"
    THEN [readyTasks |-> readyTasks, checked |-> checked]
    ELSE IF task \in checked
    THEN [readyTasks |-> readyTasks, checked |-> checked]
    ELSE Only({[readyTasks |-> IF r.ready THEN Append(r.readyTasks, task)
                               ELSE r.readyTasks,
                checked |-> r.checked] :
               r \in {getReadyDeps(st, deps[task], 1, TRUE, readyTasks,
                                   checked \cup {task})}})

\* Mutant: a BLOCKED dependency already checked in this poll does not clear
\* the ready flag.
getReadyDeps_CheckedReady(st, ds, i, ready, readyTasks, checked) ==
    IF i > Len(ds)
    THEN [ready |-> ready, readyTasks |-> readyTasks, checked |-> checked]
    ELSE CASE st[ds[i]] = "RUNNING" ->
                getReadyDeps(st, ds, i + 1, FALSE, readyTasks, checked)
           [] st[ds[i]] = "DONE" ->
                getReadyDeps(st, ds, i + 1, ready, readyTasks, checked)
           [] st[ds[i]] = "BLOCKED" ->
                Only({getReadyDeps(st, ds, i + 1, ready /\ ds[i] \in checked,
                                   r.readyTasks, r.checked) :
                      r \in {getReadyTasks(st, ds[i], readyTasks, checked)}})

\* Mutant: a RUNNING dependency does not clear the ready flag.
getReadyDeps_RunningReady(st, ds, i, ready, readyTasks, checked) ==
    IF i > Len(ds)
    THEN [ready |-> ready, readyTasks |-> readyTasks, checked |-> checked]
    ELSE CASE st[ds[i]] \in {"RUNNING", "DONE"} ->
                getReadyDeps(st, ds, i + 1, ready, readyTasks, checked)
           [] st[ds[i]] = "BLOCKED" ->
                Only({getReadyDeps(st, ds, i + 1, FALSE, r.readyTasks,
                                   r.checked) :
                      r \in {getReadyTasks(st, ds[i], readyTasks, checked)}})

\* Mutant: a BLOCKED dependency is not recursed into.
getReadyDeps_NoRecursion(st, ds, i, ready, readyTasks, checked) ==
    IF i > Len(ds)
    THEN [ready |-> ready, readyTasks |-> readyTasks, checked |-> checked]
    ELSE CASE st[ds[i]] \in {"RUNNING", "BLOCKED"} ->
                getReadyDeps(st, ds, i + 1, FALSE, readyTasks, checked)
           [] st[ds[i]] = "DONE" ->
                getReadyDeps(st, ds, i + 1, ready, readyTasks, checked)

\* Mutant: the loop ends at the first BLOCKED dependency, after the
\* recursion into it.
getReadyDeps_StopAtBlocked(st, ds, i, ready, readyTasks, checked) ==
    IF i > Len(ds)
    THEN [ready |-> ready, readyTasks |-> readyTasks, checked |-> checked]
    ELSE CASE st[ds[i]] = "RUNNING" ->
                getReadyDeps(st, ds, i + 1, FALSE, readyTasks, checked)
           [] st[ds[i]] = "DONE" ->
                getReadyDeps(st, ds, i + 1, ready, readyTasks, checked)
           [] st[ds[i]] = "BLOCKED" ->
                Only({[ready |-> FALSE, readyTasks |-> r.readyTasks,
                       checked |-> r.checked] :
                      r \in {getReadyTasks(st, ds[i], readyTasks, checked)}})

\* The loop over the dependencies ds of a task, from position i on.
getReadyDeps(st, ds, i, ready, readyTasks, checked) ==
    IF i > Len(ds)
    THEN [ready |-> ready, readyTasks |-> readyTasks, checked |-> checked]
    ELSE CASE st[ds[i]] = "RUNNING" ->
                getReadyDeps(st, ds, i + 1, FALSE, readyTasks, checked)
           [] st[ds[i]] = "DONE" ->
                getReadyDeps(st, ds, i + 1, ready, readyTasks, checked)
           [] st[ds[i]] = "BLOCKED" ->
                Only({getReadyDeps(st, ds, i + 1, FALSE, r.readyTasks,
                                   r.checked) :
                      r \in {getReadyTasks(st, ds[i], readyTasks, checked)}})

-----------------------------------------------------------------------------
(* Task state transitions and dispatch *)

\* InitializerTask::setRunning
TaskSetRunning(st, t) == [st EXCEPT ![t] = "RUNNING"]

\* InitializerTask::setDone
TaskSetDone(st, t) == [st EXCEPT ![t] = "DONE"]

\* Mutant: the running counter is not incremented.
setTaskRunning_NoIncrement(c, t) ==
    [c EXCEPT !.state = TaskSetRunning(c.state, t),
              !.setRunningCalls[t] = @ + 1]

\* TaskRunner::setTaskRunning
setTaskRunning(c, t) ==
    [c EXCEPT !.state = TaskSetRunning(c.state, t),
              !.runningTasks = c.runningTasks + 1,
              !.setRunningCalls[t] = @ + 1]

\* Mutant: the task is submitted without being set Running.
internalRunTask_NoSetRunning(c, t) ==
    IF c.state[t] # "BLOCKED"
    THEN [c EXCEPT !.assertFailed = TRUE]
    ELSE [c EXCEPT !.workerQueue = @ \cup {t},
                   !.submitted[t] = @ + 1]

\* TaskRunner::internalRunTask: the assertion, setTaskRunning and the
\* submission of the body lambda to _executor.
internalRunTask(c, t) ==
    IF c.state[t] # "BLOCKED"
    THEN [c EXCEPT !.assertFailed = TRUE]
    ELSE Only({[r EXCEPT !.workerQueue = @ \cup {t},
                         !.submitted[t] = @ + 1] :
               r \in {setTaskRunning(c, t)}})

\* Mutant: only the first task of the list is run.
internalRunTasks_FirstOnly(c, taskList, i) ==
    IF i > Len(taskList) \/ i > 1 \/ c.assertFailed THEN c
    ELSE internalRunTask(c, taskList[i])

RECURSIVE internalRunTasks(_, _, _)
\* TaskRunner::internalRunTasks, from position i of taskList on; an abort
\* ends the loop.
internalRunTasks(c, taskList, i) ==
    IF i > Len(taskList) \/ c.assertFailed THEN c
    ELSE Only({internalRunTasks(r, taskList, i + 1) :
               r \in {internalRunTask(c, taskList[i])}})

\* The done task given to runTask: the synchronous form sets the promise.
DoneTask(c) ==
    [c EXCEPT !.callbacks = @ + 1,
              !.promise = (caller = "blocked") \/ @]

\* Context::setDone
ContextSetDone(c) == DoneTask([c EXCEPT !.done = TRUE])

\* Mutant: the state of the root is not tested.
PollRoot_NoRootCheck(p) ==
    Only({internalRunTasks([p EXCEPT !.lastReady = r.readyTasks],
                           r.readyTasks, 1) :
          r \in {getReadyTasks(p.state, root, <<>>, {})}})

\* pollTask once the Context is known not to be done: the root is DONE, or
\* the ready tasks are computed and run.
PollRoot(p) ==
    IF p.state[root] = "DONE" THEN ContextSetDone(p)
    ELSE Only({internalRunTasks([p EXCEPT !.lastReady = r.readyTasks],
                                r.readyTasks, 1) :
               r \in {getReadyTasks(p.state, root, <<>>, {})}})

\* Mutant: the run counts as finished when a poll finds no ready task.
pollTask_DoneWhenNothingReady(c) ==
    Only({IF p.done THEN p
          ELSE IF getReadyTasks(p.state, root, <<>>, {}).readyTasks = <<>>
          THEN ContextSetDone(p)
          ELSE PollRoot(p) :
          p \in {[c EXCEPT !.polls = @ + 1]}})

\* Mutant: the done flag of the Context is not consulted.
pollTask_NoDoneGuard(c) ==
    Only({PollRoot(p) : p \in {[c EXCEPT !.polls = @ + 1]}})

\* TaskRunner::pollTask
pollTask(c) ==
    Only({IF p.done THEN p ELSE PollRoot(p) :
          p \in {[c EXCEPT !.polls = @ + 1]}})

\* Mutant: the running counter is not decremented.
setTaskDone_NoDecrement(c, t) ==
    Only({pollTask(r) :
          r \in {[c EXCEPT !.state = TaskSetDone(c.state, t),
                           !.completions = @ + 1]}})

\* Mutant: a completion does not poll.
setTaskDone_NoPoll(c, t) ==
    [c EXCEPT !.state = TaskSetDone(c.state, t),
              !.runningTasks = c.runningTasks - 1,
              !.completions = @ + 1]

\* Mutant: a completion polls twice.
setTaskDone_PollTwice(c, t) ==
    Only({pollTask(r) :
          r \in {pollTask([c EXCEPT !.state = TaskSetDone(c.state, t),
                                    !.runningTasks = c.runningTasks - 1,
                                    !.completions = @ + 1])}})

\* TaskRunner::setTaskDone
setTaskDone(c, t) ==
    Only({pollTask(r) :
          r \in {[c EXCEPT !.state = TaskSetDone(c.state, t),
                           !.runningTasks = c.runningTasks - 1,
                           !.completions = @ + 1]}})

-----------------------------------------------------------------------------
(* Units of the context executor *)

PollUnit == [type |-> "poll", task |-> 0]
DoneUnit(t) == [type |-> "done", task |-> t]

-----------------------------------------------------------------------------
(* Actions *)

Alive == ~assertFailed /\ destroyed # "assert"

\* runTask(rootTask, contextExecutor, doneTask): a Context is made and the
\* first poll is submitted to the context executor; the call returns.
RunTaskAsync ==
    /\ Alive
    /\ caller = "idle"
    /\ caller' = "async"
    /\ done' = FALSE
    /\ ctxQueue' = ctxQueue \cup {PollUnit}
    /\ UNCHANGED <<deps, root, state, runningTasks, workerQueue,
                   bodyRunning, promise, assertFailed, polls, completions,
                   callbacks, submitted, setRunningCalls, lastReady, hung,
                   destroyed>>

\* runTask(task): the same with a promise as done task; the caller then
\* waits in future.get().
RunTaskSync ==
    /\ Alive
    /\ caller = "idle"
    /\ caller' = "blocked"
    /\ done' = FALSE
    /\ ctxQueue' = ctxQueue \cup {PollUnit}
    /\ UNCHANGED <<deps, root, state, runningTasks, workerQueue,
                   bodyRunning, promise, assertFailed, polls, completions,
                   callbacks, submitted, setRunningCalls, lastReady, hung,
                   destroyed>>

\* Mutant: the caller does not wait for the promise.
SyncReturn_NoWait ==
    /\ Alive
    /\ caller = "blocked"
    /\ caller' = "returned"
    /\ UNCHANGED <<deps, root, state, runningTasks, done, ctxQueue,
                   workerQueue, bodyRunning, promise, assertFailed, polls,
                   completions, callbacks, submitted, setRunningCalls,
                   lastReady, hung,
                   destroyed>>

\* future.get() returns once the promise has a value.
SyncReturn ==
    /\ Alive
    /\ caller = "blocked"
    /\ promise
    /\ caller' = "returned"
    /\ UNCHANGED <<deps, root, state, runningTasks, done, ctxQueue,
                   workerQueue, bodyRunning, promise, assertFailed, polls,
                   completions, callbacks, submitted, setRunningCalls,
                   lastReady, hung,
                   destroyed>>

\* The context executor runs the unit submitted by runTask.
CtxPoll ==
    /\ Alive
    /\ PollUnit \in ctxQueue
    /\ ctxQueue' = ctxQueue \ {PollUnit}
    /\ \E c \in {pollTask(Ctl)} : Install(c)
    /\ UNCHANGED <<deps, root, bodyRunning, caller, hung,
                   destroyed>>

\* Mutant: the lambda submits the done unit before it runs the body.
WorkerStart_DoneFirst(t) ==
    /\ Alive
    /\ t \in workerQueue
    /\ workerQueue' = workerQueue \ {t}
    /\ bodyRunning' = bodyRunning \cup {t}
    /\ ctxQueue' = ctxQueue \cup {[type |-> "done", task |-> t]}
    /\ UNCHANGED <<deps, root, state, runningTasks, done, caller,
                   promise, assertFailed, polls, completions, callbacks,
                   submitted, setRunningCalls, lastReady, hung, destroyed>>

\* A worker of _executor starts the body lambda of task t.
WorkerStart(t) ==
    /\ Alive
    /\ t \in workerQueue
    /\ workerQueue' = workerQueue \ {t}
    /\ bodyRunning' = bodyRunning \cup {t}
    /\ UNCHANGED <<deps, root, state, runningTasks, done, ctxQueue, caller,
                   promise, assertFailed, polls, completions, callbacks,
                   submitted, setRunningCalls, lastReady, hung,
                   destroyed>>

\* task->run() returns, unless it never does, and the lambda submits the
\* done unit to the context.
WorkerFinish(t) ==
    /\ Alive
    /\ t \in bodyRunning
    /\ t \notin hung
    /\ bodyRunning' = bodyRunning \ {t}
    /\ ctxQueue' = ctxQueue \cup {DoneUnit(t)}
    /\ UNCHANGED <<deps, root, state, runningTasks, done, workerQueue, caller,
                   promise, assertFailed, polls, completions, callbacks,
                   submitted, setRunningCalls, lastReady, hung,
                   destroyed>>

\* The context executor runs the done unit of task t.
CtxTaskDone(t) ==
    /\ Alive
    /\ DoneUnit(t) \in ctxQueue
    /\ ctxQueue' = ctxQueue \ {DoneUnit(t)}
    /\ \E c \in {setTaskDone(Ctl, t)} : Install(c)
    /\ UNCHANGED <<deps, root, bodyRunning, caller, hung,
                   destroyed>>

\* ~TaskRunner, run by the owner once the run it started is over: the
\* synchronous runTask has returned, or the done task of the asynchronous
\* one has run.  The assertion _runningTasks == 0 aborts the process.
Destroy ==
    /\ Alive
    /\ destroyed = "no"
    /\ caller = "returned" \/ (caller = "async" /\ callbacks >= 1)
    /\ destroyed' = IF runningTasks = 0 THEN "ok" ELSE "assert"
    /\ UNCHANGED <<deps, root, state, runningTasks, done, ctxQueue,
                   workerQueue, bodyRunning, caller, promise, assertFailed,
                   polls, completions, callbacks, submitted, setRunningCalls,
                   lastReady, hung>>

Next ==
    \/ RunTaskAsync
    \/ RunTaskSync
    \/ SyncReturn
    \/ CtxPoll
    \/ \E t \in Tasks : WorkerStart(t)
    \/ \E t \in Tasks : WorkerFinish(t)
    \/ \E t \in Tasks : CtxTaskDone(t)
    \/ Destroy

\* The state after construction of the tasks and of the TaskRunner: every
\* task is BLOCKED, nothing is running, nothing has been submitted.
Init ==
    /\ \E g \in AcyclicGraphs : \E descending \in BOOLEAN :
           deps = DepLists(g, descending)
    /\ root \in Tasks
    /\ state = [t \in Tasks |-> "BLOCKED"]
    /\ runningTasks = 0
    /\ done = FALSE
    /\ ctxQueue = {}
    /\ workerQueue = {}
    /\ bodyRunning = {}
    /\ caller = "idle"
    /\ promise = FALSE
    /\ assertFailed = FALSE
    /\ polls = 0
    /\ completions = 0
    /\ callbacks = 0
    /\ submitted = [t \in Tasks |-> 0]
    /\ setRunningCalls = [t \in Tasks |-> 0]
    /\ lastReady = <<>>
    /\ hung = {}
    /\ destroyed = "no"

Spec == Init /\ [][Next]_vars

\* Both executors eventually run every unit submitted to them, and every
\* task body eventually returns.
Fairness ==
    /\ WF_vars(CtxPoll)
    /\ \A t \in Tasks : WF_vars(WorkerStart(t))
    /\ \A t \in Tasks : WF_vars(WorkerFinish(t))
    /\ \A t \in Tasks : WF_vars(CtxTaskDone(t))
    /\ WF_vars(SyncReturn)

FairSpec == Init /\ [][Next]_vars /\ Fairness

\* A poll applied to any Context over any task states: the tasks of a graph
\* over the first NumAnyTasks tasks are in any state, and either no run has
\* started or the first poll of a Context, done or not, is about to run.
AnyTasks == 1..NumAnyTasks

AnyGraphs ==
    {g \in AcyclicGraphs : \A t \in Tasks \ AnyTasks : g[t] = {}}

InitAny ==
    /\ \E g \in AnyGraphs : \E descending \in BOOLEAN :
           deps = DepLists(g, descending)
    /\ root \in AnyTasks
    /\ state \in [Tasks -> States]
    /\ \A t \in Tasks \ AnyTasks : state[t] = "BLOCKED"
    /\ runningTasks = 0
    /\ caller \in {"idle", "async"}
    /\ done \in BOOLEAN
    /\ caller = "idle" => ~done
    /\ ctxQueue = IF caller = "idle" THEN {} ELSE {PollUnit}
    /\ workerQueue = {}
    /\ bodyRunning = {}
    /\ promise = FALSE
    /\ assertFailed = FALSE
    /\ polls = 0
    /\ completions = 0
    /\ callbacks = 0
    /\ submitted = [t \in Tasks |-> 0]
    /\ setRunningCalls = [t \in Tasks |-> 0]
    /\ lastReady = <<>>
    /\ hung = {}
    /\ destroyed = "no"

SpecAny == InitAny /\ [][Next]_vars

\* The TaskRunner after construction, before any run.
Fresh ==
    /\ runningTasks = 0
    /\ done = FALSE
    /\ ctxQueue = {}
    /\ workerQueue = {}
    /\ bodyRunning = {}
    /\ caller = "idle"
    /\ promise = FALSE
    /\ assertFailed = FALSE
    /\ polls = 0
    /\ completions = 0
    /\ callbacks = 0
    /\ submitted = [t \in Tasks |-> 0]
    /\ setRunningCalls = [t \in Tasks |-> 0]
    /\ lastReady = <<>>
    /\ destroyed = "no"

\* Graph g with the dependency of u on v added.
WithEdge(g, u, v) == [g EXCEPT ![u] = @ \cup {v}]

\* Graphs over the first NumAnyTasks tasks that need not be acyclic: an
\* acyclic graph, alone or with one dependency of a task on itself or on a
\* later task.  getReadyTasks does not check for cycles.
InitCyclic ==
    /\ \E g \in AnyGraphs : \E u \in AnyTasks : \E v \in u..NumAnyTasks :
       \E back \in BOOLEAN : \E descending \in BOOLEAN :
           deps = DepLists(IF back THEN WithEdge(g, u, v) ELSE g, descending)
    /\ root \in AnyTasks
    /\ state = [t \in Tasks |-> "BLOCKED"]
    /\ hung = {}
    /\ Fresh

SpecCyclic == InitCyclic /\ [][Next]_vars /\ Fairness

\* Acyclic graphs over the first NumAnyTasks tasks in which the body of at
\* most one task never returns.
InitHang ==
    /\ \E g \in AnyGraphs : \E descending \in BOOLEAN :
           deps = DepLists(g, descending)
    /\ root \in AnyTasks
    /\ state = [t \in Tasks |-> "BLOCKED"]
    /\ hung \in {{}} \cup {{h} : h \in AnyTasks}
    /\ Fresh

SpecHang == InitHang /\ [][Next]_vars /\ Fairness

-----------------------------------------------------------------------------
(* Shapes of graphs and of states *)

AllReachableDone == \A t \in Reachable : state[t] = "DONE"

\* The first unit of the run, submitted by runTask, has been executed.
FirstPollRan == caller # "idle" /\ PollUnit \notin ctxQueue

\* A depends on B and C, B and C depend on D: A = 4, B = 2, C = 3, D = 1.
IsDiamond ==
    /\ root = 4
    /\ Deps(4) = {2, 3}
    /\ Deps(2) = {1}
    /\ Deps(3) = {1}
    /\ Deps(1) = {}

\* The root has children and no child has a dependency.
IsFanOut ==
    /\ Deps(root) # {}
    /\ \A c \in Deps(root) : deps[c] = <<>>

\* The root has no dependency.
IsSingle == deps[root] = <<>>

\* T2 depends on T1 alone and is the root.
IsChain == root = 2 /\ deps[2] = <<1>>

-----------------------------------------------------------------------------
(* Claims *)

\* C1: in every reachable state, a task that is Running or Done has all its
\* dependencies Done; hence a task is set Running only when each of its
\* dependencies is already Done.
C1_DependenciesDoneFirst ==
    \A t \in Tasks : state[t] # "BLOCKED" =>
        \A d \in Deps(t) : state[d] = "DONE"

\* C1 witness: a task with a dependency has been dispatched while another
\* task is still running.
C1_Witness ==
    \E t \in Tasks : /\ state[t] = "RUNNING"
                     /\ Len(deps[t]) >= 1
                     /\ setRunningCalls[t] = 1
                     /\ \E u \in Tasks \ {t} : state[u] = "RUNNING"

\* C2: under fair executors, once a run has started on an acyclic graph of
\* Blocked tasks, it eventually reaches, and stays in, a state where every
\* task reachable from the root is Done and the callback has fired exactly
\* once.
C2_RunCompletes ==
    (caller # "idle") ~> [](AllReachableDone /\ callbacks = 1)

\* C2 witness: a run over a graph in which the root reaches every task has
\* completed.
C2_Witness ==
    /\ Reachable = Tasks
    /\ AllReachableDone
    /\ callbacks = 1
    /\ completions = NumTasks

\* C3: once the callback has been invoked every task reachable from the root
\* is Done, and the callback is invoked at most once.
C3_CallbackAfterAllDone ==
    /\ callbacks <= 1
    /\ callbacks >= 1 => AllReachableDone

\* C3 witness: the callback has fired for a graph of at least three
\* reachable tasks.
C3_Witness ==
    /\ callbacks = 1
    /\ Cardinality(Reachable) >= 3
    /\ polls >= 4

\* C4: a task only moves Blocked -> Running or Running -> Done, and it is set
\* Running, and its body submitted, at most once.
C4_Monotonic ==
    /\ [][\A t \in Tasks :
            \/ state'[t] = state[t]
            \/ state[t] = "BLOCKED" /\ state'[t] = "RUNNING"
            \/ state[t] = "RUNNING" /\ state'[t] = "DONE"]_vars
    /\ [](\A t \in Tasks : setRunningCalls[t] <= 1 /\ submitted[t] <= 1)

\* C4 witness: a task that two other tasks depend on has run once and is
\* Done, and one of its dependents is Running.
C4_Witness ==
    \E t \in Tasks :
        /\ state[t] = "DONE"
        /\ submitted[t] = 1
        /\ Cardinality({u \in Reachable : t \in Deps(u)}) >= 2
        /\ \E u \in Tasks : t \in Deps(u) /\ state[u] = "RUNNING"

\* C5: in the diamond, D is Done before B or C is set Running, A is set
\* Running only when B and C are Done, B and C are dispatched by the same
\* poll, and the body of D is submitted once.
C5_Diamond ==
    IsDiamond =>
        /\ (state[2] # "BLOCKED" \/ state[3] # "BLOCKED") => state[1] = "DONE"
        /\ state[4] # "BLOCKED" => state[2] = "DONE" /\ state[3] = "DONE"
        /\ (state[2] = "BLOCKED") <=> (state[3] = "BLOCKED")
        /\ submitted[1] <= 1
        /\ state[1] # "BLOCKED" => submitted[1] = 1

\* C5 witness: in the diamond, B and C are both Running, dispatched by one
\* poll, after D ran once.
C5_Witness ==
    /\ IsDiamond
    /\ state[2] = "RUNNING"
    /\ state[3] = "RUNNING"
    /\ Range(lastReady) = {2, 3}
    /\ submitted[1] = 1

\* C6: for a root whose children have no dependencies, after the first poll
\* and before any completion, the ready list of that poll holds exactly the
\* children, each once, all of them are Running and the root is Blocked.
C6_FanOut ==
    (IsFanOut /\ polls = 1) =>
        /\ completions = 0
        /\ Range(lastReady) = Deps(root)
        /\ Len(lastReady) = Cardinality(Deps(root))
        /\ \A c \in Deps(root) : state[c] = "RUNNING"
        /\ state[root] = "BLOCKED"
        /\ runningTasks = Cardinality(Deps(root))

\* C6 witness: the first poll has dispatched the three children of a root.
C6_Witness ==
    /\ IsFanOut
    /\ polls = 1
    /\ Cardinality(Deps(root)) = 3
    /\ Len(lastReady) = 3

\* C7: a poll of a Context that is marked done changes no task state,
\* dispatches nothing, keeps the running counter and does not invoke the
\* callback.
C7_PollOfDoneIsNoOp ==
    [][(done /\ polls' = polls + 1) =>
            /\ state' = state
            /\ runningTasks' = runningTasks
            /\ workerQueue' = workerQueue
            /\ submitted' = submitted
            /\ setRunningCalls' = setRunningCalls
            /\ callbacks' = callbacks
            /\ promise' = promise
            /\ done']_vars

\* C7 witness: a done Context has been polled while its root was Done, or
\* Blocked with every dependency Done.
C7_Witness ==
    /\ done
    /\ polls = 1
    /\ callbacks = 0
    /\ state[root] = "DONE" \/ (state[root] = "BLOCKED" /\
                                \A d \in Deps(root) : state[d] = "DONE")

\* C8 as stated: for a root without dependencies, one poll leaves the root
\* Done with the callback fired, and no further poll happens.
C8_Original ==
    IsSingle =>
        /\ polls >= 1 => state[root] = "DONE" /\ callbacks = 1
        /\ polls <= 1

\* C8 amended: for a root without dependencies, the first poll puts the root
\* on the ready list and sets it Running; the completion unit sets it Done
\* and its poll, the second, fires the callback; there is no third poll.
C8_SingleTask ==
    IsSingle =>
        /\ polls = 1 => /\ lastReady = <<root>>
                        /\ state[root] = "RUNNING"
                        /\ callbacks = 0
        /\ state[root] = "DONE" => polls = 2 /\ callbacks = 1 /\ done
        /\ callbacks >= 1 => state[root] = "DONE"
        /\ polls <= 2

\* C8 witness: the single task is Done and the callback has fired.
C8_Witness ==
    /\ IsSingle
    /\ state[root] = "DONE"
    /\ callbacks = 1
    /\ polls = 2

\* C9: the synchronous runTask has returned only if the callback has fired
\* and every task reachable from the root is Done; in the chain, T2 is set
\* Running only after T1 was.
C9_SyncReturnsAfterDone ==
    /\ caller = "returned" => callbacks >= 1 /\ AllReachableDone
    /\ IsChain =>
        /\ caller = "returned" => state[1] = "DONE" /\ state[2] = "DONE"
        /\ setRunningCalls[2] >= 1 => setRunningCalls[1] >= 1 /\ state[1] = "DONE"

\* C9 witness: the synchronous run of the chain has returned.
C9_Witness ==
    /\ IsChain
    /\ caller = "returned"
    /\ setRunningCalls[1] = 1
    /\ setRunningCalls[2] = 1

\* C10: the polls are the first one and one per completion, and a complete
\* run of N reachable tasks has made exactly N + 1 polls.
C10_PollCount ==
    /\ polls = (IF FirstPollRan THEN 1 ELSE 0) + completions
    /\ callbacks >= 1 => polls = Cardinality(Reachable) + 1

\* C10 witness: a run over four reachable tasks is complete after five polls.
C10_Witness ==
    /\ callbacks = 1
    /\ Cardinality(Reachable) = 4
    /\ polls = 5
    /\ completions = 4

-----------------------------------------------------------------------------
(* Readiness as the glossary defines it *)

RECURSIVE BlockedFrom(_, _, _)
\* Tasks reached from frontier through BLOCKED tasks only, under states st.
BlockedFrom(st, frontier, seen) ==
    IF frontier = {} THEN seen
    ELSE LET next == {d \in UNION {Deps(t) : t \in frontier} :
                        st[d] = "BLOCKED"} \ (seen \cup frontier)
         IN BlockedFrom(st, next, seen \cup frontier)

\* The BLOCKED tasks that a path of BLOCKED tasks joins to the root.
BlockedReach(st) ==
    IF st[root] = "BLOCKED" THEN BlockedFrom(st, {root}, {}) ELSE {}

\* Ready task: a BLOCKED task all of whose dependencies are DONE.
IsReady(st, t) == st[t] = "BLOCKED" /\ \A d \in Deps(t) : st[d] = "DONE"

ReadySet(st) == {t \in BlockedReach(st) : IsReady(st, t)}

NoDuplicates(s) == Cardinality(Range(s)) = Len(s)

RunningSet == {t \in Tasks : state[t] = "RUNNING"}

\* C11: the assertion of internalRunTask has not failed, and the ready list
\* of the latest poll holds no task twice and only tasks that the poll found
\* Blocked and set Running, once.
C11_AssertionHolds ==
    /\ ~assertFailed
    /\ NoDuplicates(lastReady)
    /\ \A t \in Range(lastReady) :
          setRunningCalls[t] = 1 /\ submitted[t] = 1 /\ state[t] # "BLOCKED"

\* C11 witness: a poll has dispatched a task that two Blocked tasks, both on
\* Blocked paths from the root, depend on.
C11_Witness ==
    \E t \in Range(lastReady) :
        /\ setRunningCalls[t] = 1
        /\ state[t] = "RUNNING"
        /\ Cardinality({u \in BlockedReach(state) : t \in Deps(u)}) >= 2

\* C12: the running counter equals the number of Running tasks and is never
\* below zero.
C12_CounterIsRunningTasks ==
    /\ runningTasks = Cardinality(RunningSet)
    /\ runningTasks >= 0

\* C12 witness: two tasks are Running after another one completed.
C12_Witness ==
    /\ runningTasks = 2
    /\ completions >= 1
    /\ Cardinality(RunningSet) = 2

\* C13: once the callback has fired, and so once the synchronous runTask has
\* returned, the running counter is zero and the assertion of the destructor
\* holds.
C13_DestructorAssertionHolds ==
    /\ callbacks >= 1 => runningTasks = 0
    /\ caller = "returned" => runningTasks = 0
    /\ destroyed # "assert"

\* C13 witness: the TaskRunner has been destroyed after a run of at least
\* three tasks.
C13_Witness ==
    /\ destroyed = "ok"
    /\ completions >= 3
    /\ callbacks = 1

\* C14: task states, the counter, polls and callbacks change only in a step
\* that takes a unit off the context executor; a body that is queued or in progress, or
\* whose done unit is pending, belongs to a Running task; the done unit of a
\* task is submitted in the step in which its body returns, never earlier.
C14_TwoHopCompletion ==
    /\ [][(state' # state \/ runningTasks' # runningTasks \/ polls' # polls
           \/ callbacks' # callbacks)
          => \E u \in ctxQueue : ctxQueue' = ctxQueue \ {u}]_vars
    /\ [](\A t \in Tasks :
            (t \in workerQueue \cup bodyRunning \/ DoneUnit(t) \in ctxQueue)
                => state[t] = "RUNNING")
    /\ [](\A t \in Tasks :
            DoneUnit(t) \in ctxQueue => t \notin workerQueue \cup bodyRunning)
    /\ [][\A t \in Tasks :
            DoneUnit(t) \in ctxQueue' \ ctxQueue
                => t \in bodyRunning /\ t \notin bodyRunning']_vars

\* C14 witness: two bodies are in progress while the done unit of a third
\* task, still Running, waits on the context executor.
C14_Witness ==
    /\ Cardinality(bodyRunning) >= 2
    /\ \E t \in Tasks : DoneUnit(t) \in ctxQueue /\ state[t] = "RUNNING"

\* C15: for every assignment of task states, getReadyTasks from the root
\* returns each ready task that a path of Blocked tasks joins to the root,
\* once, and nothing else; it checks exactly the Blocked tasks on such paths,
\* so a Running dependency is not entered while the Blocked ones are.
C15_ReadyTasksExact ==
    \A r \in {getReadyTasks(state, root, <<>>, {})} :
        /\ Range(r.readyTasks) = ReadySet(state)
        /\ NoDuplicates(r.readyTasks)
        /\ r.checked = BlockedReach(state)

\* C15 witness: the first poll found the root not ready because of a
\* dependency that was Running before the run, and dispatched another
\* dependency of the root.
C15_Witness ==
    /\ polls = 1
    /\ state[root] = "BLOCKED"
    /\ \E d \in Deps(root) : state[d] = "RUNNING" /\ setRunningCalls[d] = 0
    /\ \E d \in Deps(root) : d \in Range(lastReady) /\ setRunningCalls[d] = 1

\* C16: after any poll of a run that has not fired the callback, no task
\* reachable from the root is Blocked with all its dependencies Done.
C16_MaximalDispatch ==
    (FirstPollRan /\ callbacks = 0) =>
        \A t \in Reachable : ~IsReady(state, t)

\* C16 witness: a poll after a completion dispatched a task with
\* dependencies while another reachable task stays Blocked.
C16_Witness ==
    /\ polls >= 2
    /\ callbacks = 0
    /\ \E t \in Range(lastReady) : Deps(t) # {} /\ state[t] = "RUNNING"
    /\ \E u \in Reachable : state[u] = "BLOCKED"

\* A task that a chain of dependencies leads back to itself.
OnCycle(u) == u \in ReachFrom(deps, Deps(u), {})

\* The tasks on a cycle and the tasks that depend on one, directly or not.
CycleDependent ==
    {t \in Tasks : \E u \in ReachFrom(deps, {t}, {}) : OnCycle(u)}

\* C17: when the root reaches a cycle, no task on a cycle or depending on one
\* is ever set Running, the callback never fires, the synchronous call never
\* returns and no assertion fails; under fair executors the reachable tasks
\* that do not depend on a cycle all become Done.
C17_CycleStallsSilently ==
    /\ [](root \in CycleDependent =>
            /\ \A t \in CycleDependent :
                  state[t] = "BLOCKED" /\ setRunningCalls[t] = 0
            /\ callbacks = 0
            /\ ~done
            /\ caller # "returned"
            /\ ~assertFailed)
    /\ (caller # "idle" /\ root \in CycleDependent)
          ~> [](\A t \in Reachable \ CycleDependent : state[t] = "DONE")

\* C17 witness: two polls have run on a graph whose root reaches a cycle,
\* and a task that does not depend on the cycle is Done.
C17_Witness ==
    /\ root \in CycleDependent
    /\ polls >= 2
    /\ \E t \in Reachable \ CycleDependent : state[t] = "DONE"
    /\ \E u \in Reachable : OnCycle(u) /\ u # root

\* C18: a first poll that finds the root Done marks the Context done and
\* invokes the callback; it computes no ready list, sets no task Running,
\* submits no body and leaves the running counter at zero.
C18_RootAlreadyDone ==
    [][(polls' = polls + 1 /\ completions' = completions
        /\ ~done /\ state[root] = "DONE")
       => /\ done'
          /\ callbacks' = callbacks + 1
          /\ state' = state
          /\ lastReady' = lastReady
          /\ workerQueue' = workerQueue
          /\ submitted' = submitted
          /\ setRunningCalls' = setRunningCalls
          /\ runningTasks' = 0]_vars

\* C18 witness: the callback fired in the first poll of a run whose root was
\* Done while a dependency of the root is Blocked.
C18_Witness ==
    /\ polls = 1
    /\ callbacks = 1
    /\ done
    /\ state[root] = "DONE"
    /\ setRunningCalls[root] = 0
    /\ \E d \in Deps(root) : state[d] = "BLOCKED"

\* The tasks whose body never returns and the tasks that depend on one.
HangDependent ==
    {t \in Tasks : ReachFrom(deps, {t}, {}) \cap hung # {}}

StateAtPoll ==
    [t \in Tasks |-> IF DoneUnit(t) \in ctxQueue \ ctxQueue' THEN "DONE"
                     ELSE state[t]]

\* C20: a poll sets the tasks of its ready list, which are ready, from
\* Blocked to Running and changes the state of no other task: not of a
\* Running or Done task, of a Blocked task that is not ready, or of a task
\* the root does not reach; a Done task stays Done and is not submitted again.
C20_PollFrame ==
    /\ [][polls' = polls + 1 =>
            \A st \in {StateAtPoll} :
            \A list \in {IF done \/ st[root] = "DONE" THEN {}
                         ELSE Range(lastReady')} :
            \A t \in Tasks :
                /\ t \in list => IsReady(st, t) /\ state'[t] = "RUNNING"
                /\ t \notin list => state'[t] = st[t]
                /\ st[t] # "BLOCKED" => state'[t] = st[t]
                /\ ~IsReady(st, t) => state'[t] = st[t]
                /\ t \notin Reachable => state'[t] = st[t]]_vars
    /\ [][\A t \in Tasks :
            state[t] = "DONE"
                => state'[t] = "DONE" /\ submitted'[t] = submitted[t]]_vars

\* C20 witness: the first poll dispatched a dependency of the root and left
\* alone the Blocked root and a task the root does not reach, which was Done
\* before the run and was not submitted.
C20_Witness ==
    /\ polls = 1
    /\ state[root] = "BLOCKED"
    /\ \E d \in Deps(root) : state[d] = "RUNNING" /\ setRunningCalls[d] = 1
    /\ \E t \in Tasks \ Reachable : state[t] = "DONE" /\ submitted[t] = 0

====
